---- MODULE Spec2Model ----
(***************************************************************************)
(* Model of main.py, the automatic nametag STL generator: the OpenSCAD     *)
(* locator (find_openscad), the CSV record reader (read_csv), the file     *)
(* name sanitizer (sanitize_filename), the per-record generator            *)
(* (generate_stl) and the orchestration in main().                         *)
(*                                                                         *)
(* Text is a sequence of one-character strings.  A number is a record      *)
(* [m |-> mantissa, d |-> number of decimal digits], normalised so that    *)
(* equal floats have equal records (2.50 and 2.5 are both [m=25, d=1]).    *)
(* A file of the output directory is identified by its sanitized base      *)
(* name; its content is tagged by the position of the request that wrote   *)
(* it.                                                                     *)
(***************************************************************************)
EXTENDS Integers, Sequences, FiniteSets, TLC

\* ------------------------------------------------------------------------
\* Bounds of the model
\* ------------------------------------------------------------------------
\* largest number of data rows in the CSV file
MaxRows == 2
\* largest number of parameter cells that are filled in in one CSV file
MaxCells == 2

\* ------------------------------------------------------------------------
\* Text helpers (Python str methods)
\* ------------------------------------------------------------------------
\* Python's None; no text equals it, since text holds single characters
None == <<"None">>

\* characters for which str.isspace() is true
Whitespace == {" "}

\* characters for which str.isalnum() is true
AlnumChars == {"A", "B", "C", "a", "0", "2", "5"}

isalnum(c) == c \in AlnumChars

RECURSIVE lstrip(_)
lstrip(s) ==
  IF s = <<>> THEN <<>>
  ELSE IF Head(s) \in Whitespace THEN lstrip(Tail(s)) ELSE s

RECURSIVE rstrip(_)
rstrip(s) ==
  IF s = <<>> THEN <<>>
  ELSE IF s[Len(s)] \in Whitespace THEN rstrip(SubSeq(s, 1, Len(s) - 1)) ELSE s

\* str.strip()
strip(s) == rstrip(lstrip(s))

\* str.replace(" ", "_")
replace_spaces(s) == [j \in 1..Len(s) |-> IF s[j] = " " THEN "_" ELSE s[j]]

\* ------------------------------------------------------------------------
\* sanitize_filename
\* ------------------------------------------------------------------------
sanitize_filename(name) ==
  LET safe_name == [j \in 1..Len(name) |->
                      IF isalnum(name[j]) \/ name[j] \in {" ", "-", "_"}
                      THEN name[j] ELSE "_"]
  IN  replace_spaces(strip(safe_name))

\* ------------------------------------------------------------------------
\* float() on the literals the characters of the model can spell: an
\* optional sign, then digits with at most one "." and at least one digit,
\* where single underscores may stand between two digits ("2_5" is 25.0).
\* Exponents, "inf", "nan" and non-ASCII digits need characters the model
\* does not have.
\* ------------------------------------------------------------------------
DigitChars == {"0", "2", "5"}

DigitVal(c) == IF c = "0" THEN 0 ELSE IF c = "2" THEN 2 ELSE 5

\* the value of the digits of s, "." and "_" left out
RECURSIVE DigitsValue(_, _)
DigitsValue(s, acc) ==
  IF s = <<>> THEN acc
  ELSE IF Head(s) \in DigitChars
  THEN DigitsValue(Tail(s), acc * 10 + DigitVal(Head(s)))
  ELSE DigitsValue(Tail(s), acc)

RECURSIVE Normalise(_)
Normalise(x) ==
  IF x.m = 0 THEN [m |-> 0, d |-> 0]
  ELSE IF x.d > 0 /\ x.m % 10 = 0 THEN Normalise([m |-> x.m \div 10, d |-> x.d - 1])
  ELSE x

\* [ok |-> FALSE] stands for ValueError
float(sval) ==
  LET s      == strip(sval)
      signed == s # <<>> /\ Head(s) \in {"-", "+"}
      body   == IF signed THEN Tail(s) ELSE s
      dots   == {j \in 1..Len(body) : body[j] = "."}
      digs   == {j \in 1..Len(body) : body[j] \in DigitChars}
      wellformed == /\ \A j \in 1..Len(body) : body[j] \in DigitChars \cup {".", "_"}
                    /\ \A j \in 1..Len(body) :
                         body[j] = "_" => (j - 1 \in digs /\ j + 1 \in digs)
                    /\ Cardinality(dots) <= 1
                    /\ digs # {}
      decimals == IF dots = {} THEN 0
                  ELSE Cardinality({j \in digs : j > (CHOOSE d \in dots : TRUE)})
      mag    == DigitsValue(body, 0)
  IN  IF ~wellformed THEN [ok |-> FALSE, val |-> [m |-> 0, d |-> 0]]
      ELSE [ok |-> TRUE,
            val |-> Normalise([m |-> IF signed /\ Head(s) = "-" THEN 0 - mag ELSE mag,
                               d |-> decimals])]

\* ------------------------------------------------------------------------
\* DEFAULT_PARAMS and read_csv
\* ------------------------------------------------------------------------
\* the keys of DEFAULT_PARAMS in the order the dict lists them, which is the
\* order "for key in DEFAULT_PARAMS.keys()" visits them
KeyOrder == <<"nametag_width", "nametag_height", "nametag_thickness",
              "text_size", "text_height", "ring_width", "ring_height",
              "mounting_hole_diameter", "corner_radius">>

ParamKeys == {KeyOrder[j] : j \in 1..Len(KeyOrder)}

DEFAULT_PARAMS ==
  [nametag_width          |-> [m |-> 80, d |-> 0],
   nametag_height         |-> [m |-> 30, d |-> 0],
   nametag_thickness      |-> [m |-> 3,  d |-> 0],
   text_size              |-> [m |-> 8,  d |-> 0],
   text_height            |-> [m |-> 15, d |-> 1],
   ring_width             |-> [m |-> 3,  d |-> 0],
   ring_height            |-> [m |-> 12, d |-> 1],
   mounting_hole_diameter |-> [m |-> 4,  d |-> 0],
   corner_radius          |-> [m |-> 3,  d |-> 0]]

\* a name test that forgets to trim: a whitespace-only name is kept
name_is_missing_untrimmed(raw_name) == raw_name = None \/ raw_name = <<>>

\* the test of line 204: the row has no usable name
name_is_missing(raw_name) == raw_name = None \/ strip(raw_name) = <<>>

\* the body of the loop over DEFAULT_PARAMS.keys() for one key: the value
\* params[key] has after the iteration, current being its value before
resolve_param(raw_val, current) ==
  IF raw_val = None THEN current
  ELSE LET sval == strip(raw_val)
       IN  IF sval = <<>> THEN current
           ELSE IF float(sval).ok THEN float(sval).val ELSE current

\* the cell makes float() raise ValueError
raises_ValueError(raw_val) ==
  /\ raw_val # None
  /\ strip(raw_val) # <<>>
  /\ ~float(strip(raw_val)).ok

\* a key loop that leaves at the first ValueError: the keys after the
\* unparsable cell are not looked at
RECURSIVE override_keys_break(_, _, _)
override_keys_break(row, keys, params) ==
  IF keys = <<>> THEN params
  ELSE LET key == Head(keys)
       IN  IF raises_ValueError(row.cells[key]) THEN params
           ELSE override_keys_break(row, Tail(keys),
                  [params EXCEPT ![key] = resolve_param(row.cells[key], params[key])])

\* the loop of lines 213-225 from the first of keys on; every path through
\* its body, the except included, goes on with the next key
RECURSIVE override_keys(_, _, _)
override_keys(row, keys, params) ==
  IF keys = <<>> THEN params
  ELSE LET key == Head(keys)
       IN  override_keys(row, Tail(keys),
             [params EXCEPT ![key] = resolve_param(row.cells[key], params[key])])

\* a row is [name |-> text or None, cells |-> [ParamKeys -> text or None]];
\* params starts as a copy of DEFAULT_PARAMS
resolve_params(row) == override_keys(row, KeyOrder, DEFAULT_PARAMS)

RECURSIVE read_rows(_, _)
read_rows(rs, names_data_acc) ==
  IF rs = <<>> THEN names_data_acc
  ELSE LET row == Head(rs)
       IN  IF name_is_missing(row.name)
           THEN read_rows(Tail(rs), names_data_acc)
           ELSE read_rows(Tail(rs),
                          Append(names_data_acc,
                                 [name   |-> strip(row.name),
                                  params |-> resolve_params(row)]))

read_csv(csv_rows) == read_rows(csv_rows, <<>>)

\* ------------------------------------------------------------------------
\* find_openscad
\* ------------------------------------------------------------------------
\* possible_paths has six entries, probed by position
NumCandidates == 6

\* what running [path, "--version"] can do: exit zero, exit non-zero, raise
\* one of the three exceptions the loop catches, or raise another OSError
ProbeOutcomes == {"ok", "nonzero", "notfound", "timeout", "permission", "oserror"}

\* a loop that stops at the first candidate that does not confirm
probe_from_giving_up(outs, j) ==
  IF j > Len(outs) THEN [path |-> 0, probed |-> Len(outs), raised |-> FALSE]
  ELSE IF outs[j] = "ok" THEN [path |-> j, probed |-> j, raised |-> FALSE]
  ELSE IF outs[j] = "oserror" THEN [path |-> 0, probed |-> j, raised |-> TRUE]
  ELSE [path |-> 0, probed |-> j, raised |-> FALSE]

\* the for loop from candidate j on; path 0 is None, probed counts the
\* candidates whose version query was run
RECURSIVE probe_from(_, _)
probe_from(outs, j) ==
  IF j > Len(outs) THEN [path |-> 0, probed |-> Len(outs), raised |-> FALSE]
  ELSE IF outs[j] = "ok" THEN [path |-> j, probed |-> j, raised |-> FALSE]
  ELSE IF outs[j] = "oserror" THEN [path |-> 0, probed |-> j, raised |-> TRUE]
  ELSE probe_from(outs, j + 1)

find_openscad(outs) == probe_from(outs, 1)

\* ------------------------------------------------------------------------
\* Files of the output directory
\* ------------------------------------------------------------------------
\* a file is absent, left by an earlier run of the program, or written
\* while request number k of this run was being processed
Absent == <<>>

FromEarlierRun == <<0>>

WrittenFor(k) == <<k>>

\* ------------------------------------------------------------------------
\* generate_stl
\* ------------------------------------------------------------------------
\* create_temp_scad: open() raises, f.write() raises after the file was
\* created, or the script is written
WriteOutcomes == {"ok", "open_error", "write_error"}

\* subprocess.run of the tool: the process cannot be launched, it is
\* killed at the timeout, it runs to its end but run() raises while it
\* decodes the captured output (text=True), or run() returns with exit code
\* zero or non-zero; "not_run" when create_temp_scad raised and line 169
\* was never reached
ToolOutcomes == {"not_run", "launch_error", "timeout", "decode_error",
                 "exit_zero", "exit_nonzero"}

\* the outcomes in which the tool process ran and may have written its output
ToolRan == {"timeout", "decode_error", "exit_zero", "exit_nonzero"}

\* the environment of one call of generate_stl; wrote: the tool wrote the
\* file named by -o before it ended; remove_ok: os.remove does not raise
CallEnvs ==
  [write : WriteOutcomes, tool : ToolOutcomes, wrote : BOOLEAN, remove_ok : BOOLEAN]

\* the output directory after create_temp_scad for request k
scad_after_write(scad_files, safe_name, k, write) ==
  IF write = "open_error" THEN scad_files
  ELSE [scad_files EXCEPT ![safe_name] = WrittenFor(k)]

\* a tool that refuses to overwrite an existing output file
stl_after_tool_keep_existing(stl_files, safe_name, k, tool, wrote) ==
  IF tool \in ToolRan /\ wrote /\ stl_files[safe_name] = Absent
  THEN [stl_files EXCEPT ![safe_name] = WrittenFor(k)]
  ELSE stl_files

\* the output directory after the tool ran with -o output_stl
stl_after_tool(stl_files, safe_name, k, tool, wrote) ==
  IF tool \in ToolRan /\ wrote
  THEN [stl_files EXCEPT ![safe_name] = WrittenFor(k)]
  ELSE stl_files

\* the test of line 176
tool_succeeded(tool, stl_files, safe_name) ==
  tool = "exit_zero" /\ stl_files[safe_name] # Absent

\* os.remove(temp_scad) when it does not raise
scad_after_remove(scad_files, safe_name) ==
  [scad_files EXCEPT ![safe_name] = Absent]

\* a generator that removes the script on the failure paths as well
scad_on_failure_removed(scad_files, safe_name) ==
  [scad_files EXCEPT ![safe_name] = Absent]

\* the failure paths of lines 181-191 leave the script alone
scad_on_failure(scad_files, safe_name) == scad_files

\* a loop body whose else branch lost its else: every request counts as failed
failed_after_missing_else(n, ret) == IF ret = "raise" THEN n ELSE n + 1

\* lines 282-285: the counters after generate_stl returned ret
successful_after(n, ret) == IF ret = "True" THEN n + 1 ELSE n

failed_after(n, ret) == IF ret = "False" THEN n + 1 ELSE n

\* One call generate_stl(openscad_path, name, params, output_dir) for the
\* request at position k.  ret is "True", "False", or "raise" when an
\* exception leaves the function: the one of create_temp_scad (line 164 is
\* outside the try), or the UnicodeEncodeError of print when stdout cannot
\* encode the marks of lines 177, 182, 187 and 190: raised inside the try
\* it is caught at line 189, whose own print raises it again.  The mark is
\* printed after the tool ran and, on the success path, before os.remove.
generate_stl(stl_files, scad_files, k, name, env, encodes) ==
  LET safe_name == sanitize_filename(name)
      scad1     == scad_after_write(scad_files, safe_name, k, env.write)
      stl1      == stl_after_tool(stl_files, safe_name, k, env.tool, env.wrote)
  IN  IF env.write # "ok"
      THEN [stl |-> stl_files, scad |-> scad1, ret |-> "raise"]
      ELSE IF ~encodes
      THEN [stl |-> stl1, scad |-> scad_on_failure(scad1, safe_name), ret |-> "raise"]
      ELSE IF env.tool \in {"launch_error", "timeout", "decode_error"}
      THEN [stl |-> stl1, scad |-> scad_on_failure(scad1, safe_name), ret |-> "False"]
      ELSE IF tool_succeeded(env.tool, stl1, safe_name)
      THEN IF env.remove_ok
           THEN [stl |-> stl1, scad |-> scad_after_remove(scad1, safe_name),
                 ret |-> "True"]
           ELSE [stl |-> stl1, scad |-> scad_on_failure(scad1, safe_name),
                 ret |-> "False"]
      ELSE [stl |-> stl1, scad |-> scad_on_failure(scad1, safe_name), ret |-> "False"]

\* the parts of the environment the call did not consult are irrelevant;
\* they are fixed so that one behaviour of the code is one call record
EnvIsCanonical(stl_files, name, env, encodes) ==
  LET safe_name == sanitize_filename(name)
      removes   == /\ encodes
                   /\ env.tool = "exit_zero"
                   /\ (env.wrote \/ stl_files[safe_name] # Absent)
  IN  /\ env.write # "ok" <=> env.tool = "not_run"
      /\ env.tool \notin ToolRan => ~env.wrote
      /\ ~removes => env.remove_ok

\* ------------------------------------------------------------------------
\* State
\* ------------------------------------------------------------------------
VARIABLES
  pc,             \* where main() is
  status,         \* exit status of the process once it has ended
  csv_exists,     \* os.path.exists(CSV_FILE)
  stdout_encodes, \* sys.stdout can encode the marks of the progress lines
  probes,         \* what the version query of each candidate does
  probed,         \* number of candidates whose version query was run
  openscad_path,  \* position of the resolved candidate, 0 for None
  rows,           \* the rows csv.DictReader yields
  names_data,     \* the list read_csv returned
  i,              \* number of requests passed to generate_stl
  successful,     \* counter of main()
  failed,         \* counter of main()
  stl,            \* model files of the output directory, by base name
  scad,           \* intermediate scripts temp_<base name>.scad, by base name
  stl0,           \* the model files found when the run started
  scad0,          \* the scripts found when the run started
  calls           \* one record per call of generate_stl, in call order

vars == <<pc, status, csv_exists, stdout_encodes, probes, probed, openscad_path, rows,
          names_data, i, successful, failed, stl, scad, stl0, scad0, calls>>

\* ------------------------------------------------------------------------
\* Inputs
\* ------------------------------------------------------------------------
NoCells == [key \in ParamKeys |-> None]

\* name cells of the runs of the whole program: a blank one, two that
\* sanitize alike, and a third
MainNameFields == {<<" ">>, <<"A", "/", "B">>, <<"A", " ", "B">>, <<"C">>}

MainCsvs ==
  UNION {[1..n -> {[name |-> f, cells |-> NoCells] : f \in MainNameFields}]
           : n \in 0..MaxRows}

SafeNames == {sanitize_filename(strip(f)) : f \in MainNameFields \ {<<" ">>}}

\* the locator in the runs of the whole program: no candidate confirmed,
\* the third confirmed after two swallowed failures, and an error the loop
\* does not catch
MainProbes ==
  {[c \in 1..NumCandidates |-> "notfound"],
   [c \in 1..NumCandidates |->
      IF c = 1 THEN "notfound" ELSE IF c = 2 THEN "nonzero" ELSE "ok"],
   [c \in 1..NumCandidates |-> IF c = 1 THEN "timeout" ELSE "oserror"]}

\* name cells and parameter cells of the reader's inputs
NameFields == {None, <<>>, <<" ">>, <<" ", "A", " ">>, <<"B">>}

FilledFields == {<<>>, <<" ">>, <<"2", "a">>, <<" ", "2", ".", "5", " ">>,
                 <<"2", "_", "5">>}

\* the name cell of the rows whose parameter cells are varied
NamedFields == {<<" ", "A", " ">>}

RECURSIVE CellSets(_, _)
CellSets(positions, m) ==
  IF m = 0 THEN {{}}
  ELSE LET smaller == CellSets(positions, m - 1)
       IN  smaller \cup {S \cup {p} : S \in smaller, p \in positions}

MakeCsv(names, filled) ==
  [r \in DOMAIN names |->
     [name  |-> names[r],
      cells |-> [key \in ParamKeys |->
                   IF <<r, key>> \in DOMAIN filled THEN filled[<<r, key>>] ELSE None]]]

\* ------------------------------------------------------------------------
\* Initial states
\* ------------------------------------------------------------------------
Idle ==
  /\ status = 0
  /\ probed = 0
  /\ openscad_path = 0
  /\ names_data = <<>>
  /\ i = 0
  /\ successful = 0
  /\ failed = 0
  /\ calls = <<>>
  /\ stl = stl0
  /\ scad = scad0

\* a run of the program
Init ==
  /\ pc = "start"
  /\ csv_exists \in BOOLEAN
  /\ stdout_encodes \in BOOLEAN
  /\ probes \in MainProbes
  /\ rows \in MainCsvs
  /\ stl0 \in [SafeNames -> {Absent, FromEarlierRun}]
  /\ scad0 \in [SafeNames -> {Absent, FromEarlierRun}]
  /\ Idle

\* read_csv applied to a CSV file with any name cells and at most one
\* parameter cell filled in
InitReader ==
  /\ pc = "read"
  /\ csv_exists = TRUE
  /\ stdout_encodes = TRUE
  /\ probes = [c \in 1..NumCandidates |-> "ok"]
  /\ \E n \in 0..MaxRows :
       \E names \in [1..n -> NameFields] :
         \E S \in CellSets((1..n) \X ParamKeys, 1) :
           \E filled \in [S -> FilledFields] :
             rows = MakeCsv(names, filled)
  /\ stl0 = [s \in SafeNames |-> Absent]
  /\ scad0 = [s \in SafeNames |-> Absent]
  /\ Idle

\* read_csv applied to a CSV file of named rows with up to MaxCells
\* parameter cells filled in, in any rows and columns
InitParams ==
  /\ pc = "read"
  /\ csv_exists = TRUE
  /\ stdout_encodes = TRUE
  /\ probes = [c \in 1..NumCandidates |-> "ok"]
  /\ \E n \in 0..MaxRows :
       \E names \in [1..n -> NamedFields] :
         \E S \in CellSets((1..n) \X ParamKeys, MaxCells) :
           \E filled \in [S -> FilledFields] :
             rows = MakeCsv(names, filled)
  /\ stl0 = [s \in SafeNames |-> Absent]
  /\ scad0 = [s \in SafeNames |-> Absent]
  /\ Idle

\* find_openscad applied to every behaviour of the six candidates
InitLocator ==
  /\ pc = "locate"
  /\ csv_exists = TRUE
  /\ stdout_encodes = TRUE
  /\ probes \in [1..NumCandidates -> ProbeOutcomes]
  /\ rows = <<>>
  /\ stl0 = [s \in SafeNames |-> Absent]
  /\ scad0 = [s \in SafeNames |-> Absent]
  /\ Idle

\* ------------------------------------------------------------------------
\* main()
\* ------------------------------------------------------------------------
\* lines 238-247
CheckCsv ==
  /\ pc = "start"
  /\ IF csv_exists
     THEN pc' = "locate" /\ status' = status
     ELSE pc' = "exit_csv_missing" /\ status' = 1
  /\ UNCHANGED <<csv_exists, stdout_encodes, probes, probed, openscad_path, rows, names_data, i,
                 successful, failed, stl, scad, stl0, scad0, calls>>

\* a main() that goes on without a resolved tool
FindOpenscadNoExit ==
  /\ pc = "locate"
  /\ LET r == find_openscad(probes)
     IN  /\ probed' = r.probed
         /\ openscad_path' = r.path
         /\ IF r.raised THEN pc' = "crashed" /\ status' = 1
            ELSE pc' = "mkdir" /\ status' = status
  /\ UNCHANGED <<csv_exists, stdout_encodes, probes, rows, names_data, i, successful, failed,
                 stl, scad, stl0, scad0, calls>>

\* lines 249-255
FindOpenscad ==
  /\ pc = "locate"
  /\ LET r == find_openscad(probes)
     IN  /\ probed' = r.probed
         /\ openscad_path' = r.path
         /\ IF r.raised THEN pc' = "crashed" /\ status' = 1
            ELSE IF r.path = 0 THEN pc' = "exit_no_openscad" /\ status' = 1
            ELSE pc' = "mkdir" /\ status' = status
  /\ UNCHANGED <<csv_exists, stdout_encodes, probes, rows, names_data, i, successful, failed,
                 stl, scad, stl0, scad0, calls>>

\* line 258; mkdir raises when the path cannot be made a directory
MakeOutputDir ==
  /\ pc = "mkdir"
  /\ \E mkdir_ok \in BOOLEAN :
       IF mkdir_ok
       THEN pc' = "read" /\ status' = status
       ELSE pc' = "crashed" /\ status' = 1
  /\ UNCHANGED <<csv_exists, stdout_encodes, probes, probed, openscad_path, rows, names_data, i,
                 successful, failed, stl, scad, stl0, scad0, calls>>

\* lines 262-271; open_ok: the file can be opened and decoded
ReadCsv ==
  /\ pc = "read"
  /\ \E open_ok \in BOOLEAN :
       IF ~open_ok
       THEN /\ names_data' = names_data
            /\ pc' = "exit_read_error" /\ status' = 1
       ELSE /\ names_data' = read_csv(rows)
            /\ IF names_data' = <<>>
               THEN pc' = "exit_no_names" /\ status' = 1
               ELSE pc' = "loop" /\ status' = status
  /\ UNCHANGED <<csv_exists, stdout_encodes, probes, probed, openscad_path, rows, i,
                 successful, failed, stl, scad, stl0, scad0, calls>>

\* one iteration of the loop of lines 280-285
GenerateStl ==
  /\ pc = "loop"
  /\ i < Len(names_data)
  /\ \E env \in CallEnvs :
       LET k    == i + 1
           data == names_data[k]
           r    == generate_stl(stl, scad, k, data.name, env, stdout_encodes)
           target == sanitize_filename(data.name)
       IN  /\ EnvIsCanonical(stl, data.name, env, stdout_encodes)
           /\ i' = k
           /\ stl' = r.stl
           /\ scad' = r.scad
           /\ calls' = Append(calls, [name |-> data.name, env |-> env,
                                      target_exists |-> r.stl[target] # Absent,
                                      ret |-> r.ret])
           /\ successful' = successful_after(successful, r.ret)
           /\ failed' = failed_after(failed, r.ret)
           /\ IF r.ret = "raise"
              THEN pc' = "crashed" /\ status' = 1
              ELSE pc' = pc /\ status' = status
  /\ UNCHANGED <<csv_exists, stdout_encodes, probes, probed, openscad_path, rows, names_data,
                 stl0, scad0>>

\* lines 287-294: the loop is over, the summary is printed
Summary ==
  /\ pc = "loop"
  /\ i = Len(names_data)
  /\ pc' = "done"
  /\ UNCHANGED <<status, csv_exists, stdout_encodes, probes, probed, openscad_path, rows,
                 names_data, i, successful, failed, stl, scad, stl0, scad0, calls>>

Next == CheckCsv \/ FindOpenscad \/ MakeOutputDir \/ ReadCsv \/ GenerateStl \/ Summary

Spec == Init /\ [][Next]_vars

NextReader == ReadCsv

SpecReader == InitReader /\ [][NextReader]_vars

NextParams == ReadCsv

SpecParams == InitParams /\ [][NextParams]_vars

NextLocator == FindOpenscad

SpecLocator == InitLocator /\ [][NextLocator]_vars

\* ------------------------------------------------------------------------
\* Vocabulary of the properties
\* ------------------------------------------------------------------------
\* the ways main() ends through sys.exit(1)
FatalExits == {"exit_csv_missing", "exit_no_openscad", "exit_read_error",
               "exit_no_names"}

Ended == pc \in FatalExits \cup {"crashed", "done"}

\* the per-candidate failures the locator is said to skip
SkippedOutcomes == {"nonzero", "notfound", "timeout", "permission"}

\* the name cell is present and holds a character that is not whitespace
HasName(row) ==
  /\ row.name # None
  /\ \E j \in 1..Len(row.name) : row.name[j] \notin Whitespace

KeptRows == {r \in 1..Len(rows) : HasName(rows[r])}

\* the position in the CSV file of the j-th row that has a name
RowOf(j) == CHOOSE r \in KeptRows : Cardinality({q \in KeptRows : q <= r}) = j

\* the parameter cells that spell a number, and the number they spell:
\* " 2.5 " is 2.5 and "2_5" is 25.0
SpellsNumber(raw) == raw \in {<<" ", "2", ".", "5", " ">>, <<"2", "_", "5">>}

NumberSpelled(raw) ==
  IF raw = <<"2", "_", "5">> THEN [m |-> 25, d |-> 0] ELSE [m |-> 25, d |-> 1]

\* base name of the files of call k
SafeOf(k) == sanitize_filename(calls[k].name)

\* ------------------------------------------------------------------------
\* Properties
\* ------------------------------------------------------------------------
\* C8: find_openscad probes the candidates in list order; when it returns
\* a path, that candidate's version query exited with zero, every earlier
\* candidate was probed and skipped (not found, timed out, permission
\* denied or non-zero exit) and no later candidate was probed; whenever the
\* first confirming candidate is preceded by skipped ones only, it is the
\* one returned; None is returned only after all candidates were probed and
\* none was confirmed.
C8_LocatorFirstMatch ==
  pc # "locate" =>
    /\ openscad_path # 0 =>
         /\ probes[openscad_path] = "ok"
         /\ \A c \in 1..(openscad_path - 1) : probes[c] \in SkippedOutcomes
         /\ probed = openscad_path
    /\ \A c \in 1..NumCandidates :
         (probes[c] = "ok" /\ \A b \in 1..(c - 1) : probes[b] \in SkippedOutcomes)
           => (openscad_path = c /\ pc = "mkdir")
    /\ pc = "exit_no_openscad" =>
         /\ openscad_path = 0
         /\ probed = NumCandidates
         /\ \A c \in 1..NumCandidates : probes[c] \in SkippedOutcomes

\* the fourth candidate is returned after a candidate that was not found,
\* one that timed out and one that exited non-zero
C8_Witness ==
  /\ pc = "mkdir"
  /\ openscad_path = 4
  /\ probes[1] = "notfound"
  /\ probes[2] = "timeout"
  /\ probes[3] = "nonzero"
  /\ probes[5] = "ok"

\* C6: read_csv returns exactly the rows whose name cell is present and
\* not empty after trimming, in row order: the result is as long as the
\* number of rows minus the rows without a name, and its j-th request
\* carries the trimmed name of the j-th row that has one.
C6_ReaderKeepsNamedRows ==
  pc \in {"loop", "exit_no_names"} =>
    /\ Len(names_data) =
         Len(rows) - Cardinality({r \in 1..Len(rows) : ~HasName(rows[r])})
    /\ \A j \in 1..Len(names_data) :
         /\ j <= Cardinality(KeptRows)
         /\ names_data[j].name = strip(rows[RowOf(j)].name)
         /\ names_data[j].name # <<>>

\* a whitespace-only row was skipped and the row after it was kept
C6_Witness ==
  /\ pc = "loop"
  /\ Len(rows) = 2
  /\ rows[1].name = <<" ">>
  /\ rows[2].name = <<" ", "A", " ">>
  /\ Len(names_data) = 1
  /\ names_data[1].name = <<"A">>

\* the value read_csv must give key for the row at position r of the file
ExpectedParam(r, key) ==
  IF SpellsNumber(rows[r].cells[key]) THEN NumberSpelled(rows[r].cells[key])
  ELSE DEFAULT_PARAMS[key]

\* the cell is filled in and is neither blank nor a number
NotANumber(raw) ==
  /\ raw # None
  /\ \E j \in 1..Len(raw) : raw[j] \notin Whitespace
  /\ ~SpellsNumber(raw)

\* C7: parameter resolution is total.  Once read_csv has returned, every row
\* that has a name has its request, in file order and under its trimmed
\* name, whatever its parameter cells hold; every request has all nine
\* parameter keys; each key holds the number its cell spells when the cell
\* is present, not empty after trimming and numeric, and the compiled-in
\* default otherwise, independently of the cells of the other keys.
C7_ParamsResolved ==
  pc \in {"loop", "exit_no_names"} =>
    /\ Len(names_data) = Cardinality(KeptRows)
    /\ \A j \in 1..Len(names_data) :
         LET r == RowOf(j)
         IN  /\ names_data[j].name = strip(rows[r].name)
             /\ DOMAIN names_data[j].params = ParamKeys
             /\ \A key \in ParamKeys :
                  names_data[j].params[key] = ExpectedParam(r, key)

\* a named row whose text_size is no number and whose text_height, a later
\* key, is 2.5 was kept: text_size has its default, text_height the value
\* of the row, and a third key its default
C7_Witness ==
  /\ pc = "loop"
  /\ \E j \in 1..Len(names_data) :
       /\ NotANumber(rows[RowOf(j)].cells["text_size"])
       /\ rows[RowOf(j)].cells["text_height"] = <<" ", "2", ".", "5", " ">>
       /\ names_data[j].params["text_size"] = [m |-> 8, d |-> 0]
       /\ names_data[j].params["text_height"] = [m |-> 25, d |-> 1]
       /\ names_data[j].params["ring_width"] = [m |-> 3, d |-> 0]

\* the last call of generate_stl, which the files of the current state
\* are the result of
LastCall == calls[Len(calls)]

LastSafe == SafeOf(Len(calls))

\* call k wrote its script and then its tool invocation failed: non-zero
\* exit, timeout, or exit zero without a target file
ToolFailed(k) ==
  /\ calls[k].env.write = "ok"
  /\ \/ calls[k].env.tool \in {"exit_nonzero", "timeout"}
     \/ calls[k].env.tool = "exit_zero" /\ ~calls[k].target_exists

\* C1: once the loop has started, no failure of a record keeps the later
\* records from being attempted: a run that has entered the loop ends only
\* at the summary, with every request passed to generate_stl and counted.
C1_EveryRecordAttempted ==
  (names_data # <<>> /\ pc # "loop") =>
    /\ pc = "done"
    /\ i = Len(names_data)
    /\ successful + failed = Len(names_data)

\* C2: after every call of generate_stl, Success means the model file of
\* the request's base name exists and its script does not, and Failure
\* means no model file of that base name exists.
C2_AllOrNothing ==
  calls # <<>> =>
    /\ LastCall.ret = "True" =>
         (stl[LastSafe] # Absent /\ scad[LastSafe] = Absent)
    /\ LastCall.ret = "False" => stl[LastSafe] = Absent

\* C3: whenever the tool invocation returned exit code zero and the
\* target file exists afterwards, generate_stl returned Success and the
\* script is gone.
C3_ZeroExitAndFileIsSuccess ==
  (calls # <<>> /\ LastCall.env.tool = "exit_zero" /\ LastCall.target_exists) =>
    (LastCall.ret = "True" /\ scad[LastSafe] = Absent)

\* C4: generate_stl is called, and the output directory written, only
\* after the input was found, a tool path resolved and at least one request
\* read; a run with a missing input, no confirmed tool, a failed read or
\* zero requests ends with a non-zero status and without any call.
C4_FatalBeforeGeneration ==
  /\ (calls # <<>> \/ i # 0 \/ stl # stl0 \/ scad # scad0) =>
       /\ csv_exists
       /\ openscad_path \in 1..NumCandidates
       /\ probes[openscad_path] = "ok"
       /\ names_data # <<>>
       /\ KeptRows # {}
  /\ pc \in FatalExits =>
       (status # 0 /\ calls = <<>> /\ stl = stl0 /\ scad = scad0)
  /\ (Ended /\ (~csv_exists \/ openscad_path = 0 \/ names_data = <<>>)) =>
       (status # 0 /\ pc # "done" /\ calls = <<>> /\ stl = stl0 /\ scad = scad0)
  /\ pc \in {"loop", "done"} =>
       (csv_exists /\ openscad_path # 0 /\ names_data # <<>>)

\* the input exists and a tool was found, but every row lacks a name
C4_Witness ==
  /\ pc = "exit_no_names"
  /\ Len(rows) = 2
  /\ openscad_path = 3
  /\ status = 1
  /\ calls = <<>>

\* C5 as stated: when two processed requests have distinct display names
\* with the same base name, the model file of that base name at the end of
\* the run is the one produced for the later request.
C5_LaterAlwaysWins ==
  Ended =>
    \A j \in 1..Len(calls) : \A k \in (j + 1)..Len(calls) :
      (calls[j].name # calls[k].name /\ SafeOf(j) = SafeOf(k)) =>
        stl[SafeOf(k)] = WrittenFor(k)

\* C5, amended: of two processed requests with distinct display names and
\* the same base name, the later one wins whenever its tool invocation
\* wrote the model file and no request after it wrote that file again: the
\* one model file of that base name then holds what was produced for it.
C5_LaterWinsWhenItWrites ==
  Ended =>
    \A j \in 1..Len(calls) : \A k \in (j + 1)..Len(calls) :
      (/\ calls[j].name # calls[k].name
       /\ SafeOf(j) = SafeOf(k)
       /\ calls[k].env.wrote
       /\ \A l \in (k + 1)..Len(calls) :
            ~(SafeOf(l) = SafeOf(k) /\ calls[l].env.wrote)) =>
        stl[SafeOf(k)] = WrittenFor(k)

\* "A/B" and "A B" were both processed with success, each tool run wrote
\* A_B.stl, and the file is the second one's
C5_Witness ==
  /\ pc = "done"
  /\ Len(calls) = 2
  /\ calls[1].name = <<"A", "/", "B">>
  /\ calls[2].name = <<"A", " ", "B">>
  /\ SafeOf(1) = <<"A", "_", "B">>
  /\ SafeOf(2) = <<"A", "_", "B">>
  /\ calls[1].ret = "True" /\ calls[1].env.wrote
  /\ calls[2].ret = "True" /\ calls[2].env.wrote
  /\ stl[<<"A", "_", "B">>] = WrittenFor(2)

\* C9: the requests are passed to generate_stl one at a time in input
\* order, none twice; each returned call adds one to exactly one of the two
\* counters, which never decrease; successful + failed is the number of
\* returned calls, and N at the summary.
C9_Step ==
  /\ i' \in {i, i + 1}
  /\ successful' >= successful
  /\ failed' >= failed
  /\ Len(calls') = i'
  /\ \A k \in 1..Len(calls) : calls'[k] = calls[k]
  /\ \A k \in 1..i' : calls'[k].name = names_data'[k].name
  /\ (i' = i + 1 /\ calls'[i'].ret # "raise") =>
       \/ successful' = successful + 1 /\ failed' = failed
       \/ successful' = successful /\ failed' = failed + 1
  /\ (i' = i + 1 /\ calls'[i'].ret = "True") => successful' = successful + 1
  /\ (i' = i + 1 /\ calls'[i'].ret = "False") => failed' = failed + 1
  /\ i' = i => (successful' = successful /\ failed' = failed)
  /\ pc' \in {"loop", "done"} => successful' + failed' = i'
  /\ pc' = "done" => (i' = Len(names_data') /\ successful' + failed' = Len(names_data'))

\* C9: every step of a run keeps the sequential accounting of C9_Step.
C9_SequentialAccounting == [][C9_Step]_vars

\* the summary after two requests, one counted in each counter
C9_Witness ==
  /\ pc = "done"
  /\ Len(names_data) = 2
  /\ i = 2
  /\ calls[1].ret = "False"
  /\ calls[2].ret = "True"
  /\ successful = 1
  /\ failed = 1

\* C10 as stated: the script of every request whose tool invocation failed
\* is still in the output directory when the run finishes.
C10_LeftoverAlwaysStays ==
  Ended =>
    \A k \in 1..Len(calls) : ToolFailed(k) => scad[SafeOf(k)] # Absent

\* C10, amended: the script of a request whose tool invocation failed is
\* left in place by generate_stl, and stays in the output directory until
\* the run finishes unless a later request with the same base name returns
\* Success, which removes the script they share.
C10_LeftoverStaysUnlessReused ==
  \A k \in 1..Len(calls) :
    (/\ ToolFailed(k)
     /\ \A l \in (k + 1)..Len(calls) :
          ~(SafeOf(l) = SafeOf(k) /\ calls[l].ret = "True")) =>
      scad[SafeOf(k)] # Absent

\* the first request timed out, a request of another base name succeeded
\* after it, and the first request's script is there at the summary
C10_Witness ==
  /\ pc = "done"
  /\ Len(calls) = 2
  /\ calls[1].env.tool = "timeout"
  /\ calls[1].ret = "False"
  /\ calls[2].ret = "True"
  /\ SafeOf(1) # SafeOf(2)
  /\ scad[SafeOf(1)] = WrittenFor(1)
  /\ scad[SafeOf(2)] = Absent

====
